---- MODULE Spec2Model ----
(***************************************************************************)
(* Model of bmmalone/pymisc-utils:                                         *)
(*   misc/missingdata/nan_label_encoder.py  (NaNLabelEncoder)              *)
(*   misc/missing_data_utils.py             (injectors, splitter, harness) *)
(*                                                                         *)
(* Strings are sequences of character codes ordered lexicographically, as  *)
(* Python orders str.  A label value is a record that is either null       *)
(* (None / np.nan) or carries a string; a float is a record that is either *)
(* nan or carries an integer.                                              *)
(***************************************************************************)
EXTENDS Integers, Sequences, FiniteSets, TLC

VARIABLES
    missing_value_marker,       \* NaNLabelEncoder.missing_value_marker
    labels,                     \* NaNLabelEncoder.labels
    declared,                   \* the labels argument the constructor was given
    treat_unknown_as_missing,   \* NaNLabelEncoder.treat_unknown_as_missing
    classes_,                   \* NaNLabelEncoder.classes_ (set by fit)
    nfits,                      \* number of fit calls made so far
    last,                       \* the latest encoder call: input, caller buffer, outcome
    heap,                       \* the arrays alive in memory, by identity (position)
    np_random_seed,             \* numpy's process-wide seed (np.random.seed), 0 if never set
    res,                        \* the latest missing_data_utils call
    harness                     \* train_on_incomplete_data: its arguments, the
                                \* estimator objects, the calls made on them, the result

encVars == <<missing_value_marker, labels, declared, treat_unknown_as_missing, classes_, nfits,
            last>>

dataVars == <<heap, np_random_seed, res>>

vars == <<missing_value_marker, labels, declared, treat_unknown_as_missing, classes_, nfits,
          last, heap, np_random_seed, res, harness>>

-----------------------------------------------------------------------------
(* Bounds *)

\* longest label / code sequence handed to fit, transform, inverse_transform
MaxLen == 2
\* number of fit calls on one encoder
MaxFits == 2
\* rows and columns of the data matrices
NumRows == 3
NumCols == 2
\* largest num_folds handed to get_incomplete_data_splits
MaxFolds == 2

\* random_state=8675309, the default of every missing_data_utils function
DefaultRandomState == 8675309

-----------------------------------------------------------------------------
(* Values *)

None == [null |-> TRUE, s |-> <<>>]
Str(s) == [null |-> FALSE, s |-> s]
NaN == [nan |-> TRUE, v |-> 0]
Num(n) == [nan |-> FALSE, v |-> n]

\* character codes: '-' sorts below the letters, '~' above them
Dash == <<0>>
a == <<1>>
b == <<2>>
c == <<3>>
Tilde == <<9>>

Range(f) == {f[i] : i \in DOMAIN f}
SeqsUpTo(S, n) == UNION {[1..k -> S] : k \in 0..n}

\* str.__lt__
RECURSIVE StrLess(_, _)
StrLess(s, t) ==
    IF t = <<>> THEN FALSE
    ELSE IF s = <<>> THEN TRUE
    ELSE IF Head(s) # Head(t) THEN Head(s) < Head(t)
    ELSE StrLess(Tail(s), Tail(t))

\* np.unique: the sorted, duplicate-free array of the elements
RECURSIVE np_unique(_)
np_unique(S) ==
    IF S = {} THEN <<>>
    ELSE LET m == CHOOSE x \in S : \A z \in S \ {x} : StrLess(x, z)
         IN <<m>> \o np_unique(S \ {m})

\* np.unique / np.setdiff1d on numbers
RECURSIVE np_unique_int(_)
np_unique_int(S) ==
    IF S = {} THEN <<>>
    ELSE LET m == CHOOSE x \in S : \A z \in S : x <= z
         IN <<m>> \o np_unique_int(S \ {m})

\* pd.isnull(y): the mask of null positions
isnull(y) == {i \in DOMAIN y : y[i].null}

\* dtype of np.asarray(list): float64 for [], object when a None is present,
\* unicode for a list of str
DtypeOf(y) ==
    IF Len(y) = 0 THEN "F"
    ELSE IF isnull(y) # {} THEN "O"
    ELSE "U"

\* outcome of an encoder call
Ok(val) == [exc |-> "none", msg |-> "", names |-> <<>>, val |-> val]
Raise(exc, msg, names) == [exc |-> exc, msg |-> msg, names |-> names, val |-> <<>>]

-----------------------------------------------------------------------------
(* NaNLabelEncoder.fit *)

\* list(self.classes_) + self.labels when self.labels is an ndarray: numpy's
\* broadcasting add of asarray(list(classes_)) and labels (numpy 1.x loops)
AddHasLoop(dA, dB) == dB = "O" \/ (dA = "F" /\ dB = "F")
AddBroadcasts(n, m) == n = m \/ n = 1 \/ m = 1
AddResult(A, B) ==
    LET n == Len(A)
        m == Len(B)
        k == IF n = 1 THEN m ELSE n
    IN {(IF n = 1 THEN A[1] ELSE A[i]) \o (IF m = 1 THEN B[1] ELSE B[i]) : i \in 1..k}

\* the encoder after fit(y) and the call's outcome
fit(y) ==
    LET unchanged == [labels |-> labels, classes_ |-> classes_]
    IN
    IF missing_value_marker.null
    THEN unchanged @@ [out |-> Raise("ValueError", "null marker", <<>>)]
    ELSE IF \E i \in DOMAIN y : y[i] = missing_value_marker
    THEN unchanged @@ [out |-> Raise("ValueError", "marker in array", <<>>)]
    ELSE
    LET data == np_unique({y[i].s : i \in DOMAIN y \ isnull(y)})
        dA == IF data = <<>> THEN "F" ELSE "U"
        done(u, dt) ==
            [labels |-> [kind |-> "array", val |-> u, dtype |-> dt],
             classes_ |-> [set |-> TRUE, val |-> Append(u, missing_value_marker.s)],
             out |-> Ok(<<>>)]
        failed(exc, msg) ==
            [labels |-> labels,
             classes_ |-> [set |-> TRUE, val |-> data],
             out |-> Raise(exc, msg, <<>>)]
    IN
    CASE labels.kind = "none" -> done(data, DtypeOf(y))
      [] labels.kind = "list" ->
            LET u == np_unique(Range(data) \cup Range(labels.val))
            IN done(u, IF u = <<>> THEN "F" ELSE "U")
      [] labels.kind = "array" ->
            IF ~AddHasLoop(dA, labels.dtype)
            THEN failed("TypeError", "ufunc add has no loop")
            ELSE IF ~AddBroadcasts(Len(data), Len(labels.val))
            THEN failed("ValueError", "operands could not be broadcast")
            ELSE done(np_unique(AddResult(data, labels.val)),
                      IF labels.dtype = "O" THEN "O" ELSE "F")

\* NaNLabelEncoder.get_num_classes
get_num_classes ==
    IF labels.kind = "none"
    THEN Raise("TypeError", "object of type NoneType has no len()", <<>>)
    ELSE Ok(Len(labels.val))

-----------------------------------------------------------------------------
(* NaNLabelEncoder.transform *)

\* the inner while loop of numpy's binary search (side='left'), 0-based
RECURSIVE binsearch_loop(_, _, _, _)
binsearch_loop(arr, key, min_idx, max_idx) ==
    IF min_idx < max_idx
    THEN LET mid_idx == min_idx + ((max_idx - min_idx) \div 2)
         IN IF StrLess(arr[mid_idx + 1], key)
            THEN binsearch_loop(arr, key, mid_idx + 1, max_idx)
            ELSE binsearch_loop(arr, key, min_idx, mid_idx)
    ELSE min_idx

\* numpy's binsearch over the keys from position k on; the bounds of one
\* search start from the previous key's result
RECURSIVE npy_binsearch(_, _, _, _, _)
npy_binsearch(arr, keys, k, min_idx, max_idx) ==
    IF k > Len(keys) THEN <<>>
    ELSE LET key == keys[k]
             last_key == IF k = 1 THEN keys[1] ELSE keys[k - 1]
             lt == StrLess(last_key, key)
             lo == IF lt THEN min_idx ELSE 0
             hi == IF lt THEN Len(arr)
                   ELSE IF max_idx < Len(arr) THEN max_idx + 1 ELSE Len(arr)
             r == binsearch_loop(arr, key, lo, hi)
         IN <<r>> \o npy_binsearch(arr, keys, k + 1, r, r)

\* np.searchsorted(a, v)
searchsorted(arr, keys) == npy_binsearch(arr, keys, 1, 0, Len(arr))

NotFitted == Raise("NotFittedError", "not fitted", <<>>)

\* transform without line 122 (ret[m_nan] = np.nan)
transform_keeps_codes(y) ==
    IF ~classes_.set THEN NotFitted
    ELSE
    LET known == Range(classes_.val)
        m_nan == isnull(y) \cup
                 (IF treat_unknown_as_missing
                  THEN {i \in DOMAIN y \ isnull(y) : y[i].s \notin known}
                  ELSE {})
        y2 == [i \in DOMAIN y |-> IF i \in m_nan THEN missing_value_marker.s ELSE y[i].s]
        classes == Range(y2)
        diff == np_unique(classes \ known)
    IN
    IF Cardinality(classes \cap known) < Cardinality(classes)
    THEN Raise("ValueError", "y contains new labels", diff)
    ELSE LET ret == searchsorted(classes_.val, y2)
         IN Ok([i \in DOMAIN y |-> Num(ret[i])])

transform(y) ==
    IF ~classes_.set THEN NotFitted
    ELSE
    LET known == Range(classes_.val)
        m_nan == isnull(y) \cup
                 (IF treat_unknown_as_missing
                  THEN {i \in DOMAIN y \ isnull(y) : y[i].s \notin known}
                  ELSE {})
        y2 == [i \in DOMAIN y |-> IF i \in m_nan THEN missing_value_marker.s ELSE y[i].s]
        classes == Range(y2)
        diff == np_unique(classes \ known)
    IN
    IF Cardinality(classes \cap known) < Cardinality(classes)
    THEN Raise("ValueError", "y contains new labels", diff)
    ELSE LET ret == searchsorted(classes_.val, y2)
         IN Ok([i \in DOMAIN y |-> IF i \in m_nan THEN NaN ELSE Num(ret[i])])

-----------------------------------------------------------------------------
(* NaNLabelEncoder.inverse_transform *)

\* the caller's array after line 140: y[m_nan] = len(self.classes_) - 1
inverse_buf(y) ==
    IF ~classes_.set THEN y
    ELSE [i \in DOMAIN y |-> IF y[i].nan THEN Num(Len(classes_.val) - 1) ELSE y[i]]

inverse_transform(y) ==
    IF ~classes_.set THEN NotFitted
    ELSE
    LET n == Len(classes_.val)
        y2 == inverse_buf(y)
        diff == np_unique_int({y[i].v : i \in {j \in DOMAIN y : ~y[j].nan}} \ (0..(n - 1)))
    IN
    IF Len(diff) > 1
    THEN Raise("ValueError", "truth value of an array is ambiguous", <<>>)
    ELSE IF Len(diff) = 1 /\ diff[1] # 0
    THEN Raise("ValueError", "y contains new labels", diff)
    ELSE IF \E i \in DOMAIN y2 : y2[i].v < 0 - n \/ y2[i].v >= n
    THEN Raise("IndexError", "index out of bounds", <<>>)
    ELSE Ok([i \in DOMAIN y2 |-> Str(classes_.val[(y2[i].v % n) + 1])])


-----------------------------------------------------------------------------
(* misc/missing_data_utils.py: arrays *)

\* An array is a matrix: a sequence of rows of floats; a 1-D array is a
\* matrix of one row.  heap[id] is the array with identity id.  A view names
\* the memory of a column or a row of an array, as numpy basic indexing does.
ColView(id, j) == [base |-> id, axis |-> "col", idx |-> j]
RowView(id, i) == [base |-> id, axis |-> "row", idx |-> i]

ReadView(h, w) ==
    IF w.axis = "col"
    THEN [r \in 1..Len(h[w.base]) |-> h[w.base][r][w.idx]]
    ELSE h[w.base][w.idx]

WriteView(h, w, vals) ==
    IF w.axis = "col"
    THEN [h EXCEPT ![w.base] = [r \in 1..Len(@) |-> [@[r] EXCEPT ![w.idx] = vals[r]]]]
    ELSE [h EXCEPT ![w.base] = [@ EXCEPT ![w.idx] = vals]]

\* ndarray.copy / np.copy of a view: a new 1-D array
CopyView(h, w) ==
    [heap |-> Append(h, <<ReadView(h, w)>>), view |-> RowView(Len(h) + 1, 1)]

\* x > threshold on floats: False for nan
Gt(x, t) == ~x.nan /\ x.v > t

\* np.product of a sequence of floats
RECURSIVE np_product(_)
np_product(xs) ==
    IF xs = <<>> THEN Num(1)
    ELSE LET rest == np_product(Tail(xs))
         IN IF Head(xs).nan \/ rest.nan THEN NaN ELSE Num(Head(xs).v * rest.v)

\* the caller's complete matrix: cell (i, j) holds (i-1)*NumCols + j
SampleX == [i \in 1..NumRows |-> [j \in 1..NumCols |-> Num((i - 1) * NumCols + j)]]
\* the caller's class labels, one per row
SampleY == <<[i \in 1..NumRows |-> Num(i % 2)]>>
Thresholds == {0, NumCols, NumRows * NumCols}
RandomStates == {DefaultRandomState, 1}

\* identities of the caller's arrays
X_complete_ref == 1
X_incomplete_ref == 2
y_ref == 3
CallerIds == {X_complete_ref, X_incomplete_ref, y_ref}

\* outcome of a missing_data_utils call: the exception (or "none"), the
\* identities of the returned arrays, the number of per-column / per-row
\* transform invocations made, and the heap left behind
DataOk(h, ret, invoked) == [exc |-> "none", ret |-> ret, invoked |-> invoked, heap |-> h]
DataRaise(h, exc, invoked) == [exc |-> exc, ret |-> <<>>, invoked |-> invoked, heap |-> h]

-----------------------------------------------------------------------------
(* get_mcar_incomplete_data *)

\* math_utils.mask_random_values: every cell is masked with the given
\* likelihood (in percent) by a generator determined by random_state
PseudoRandom(random_state, k) == (((random_state % 1000) + 7 * k) * 37) % 100
mask_random_values(h, X, likelihood, random_state) ==
    LET m == h[X]
        masked == [i \in 1..Len(m) |-> [j \in 1..Len(m[i]) |->
                     IF PseudoRandom(random_state, (i - 1) * Len(m[i]) + j) < likelihood
                     THEN NaN ELSE m[i][j]]]
    IN DataOk(Append(h, masked), <<Len(h) + 1>>, 0)

get_mcar_incomplete_data(h, X, missing_likelihood, random_state) ==
    mask_random_values(h, X, missing_likelihood, random_state)

-----------------------------------------------------------------------------
(* get_nmar_incomplete_data, remove_large_values *)

NoFn == [fn |-> "None", threshold |-> 0]
RemoveLarge(t) == [fn |-> "remove_large_values", threshold |-> t]

\* remove_large_values without the copy of line 189 (X_small = X)
remove_large_values_in_place(h, X, threshold) ==
    LET xs == ReadView(h, X)
    IN [heap |-> WriteView(h, X, [k \in DOMAIN xs |->
                                    IF Gt(xs[k], threshold) THEN NaN ELSE xs[k]]),
        view |-> X]

remove_large_values(h, X, threshold) ==
    LET xs == ReadView(h, X)
        X_small == CopyView(h, X)
    IN [heap |-> WriteView(X_small.heap, X_small.view,
                           [k \in DOMAIN xs |-> IF Gt(xs[k], threshold) THEN NaN ELSE xs[k]]),
        view |-> X_small.view]

\* the loop of lines 158-160 from column i on; temporaries are released
\* once the column is assigned
RECURSIVE nmar_loop(_, _, _, _, _, _)
nmar_loop(h, X, X_ret, missing_likelihood, i, invoked) ==
    IF i > Len(h[X][1]) THEN DataOk(h, <<X_ret>>, invoked)
    ELSE IF missing_likelihood[i].fn = "None"
    THEN nmar_loop(h, X, X_ret, missing_likelihood, i + 1, invoked)
    ELSE LET r == remove_large_values(h, ColView(X, i), missing_likelihood[i].threshold)
             h2 == WriteView(r.heap, ColView(X_ret, i), ReadView(r.heap, r.view))
         IN nmar_loop(SubSeq(h2, 1, X_ret), X, X_ret, missing_likelihood, i + 1, invoked + 1)

\* line 150 with < in place of !=
LengthMismatchShortOnly(h, X, missing_likelihood) == Len(missing_likelihood) < Len(h[X][1])

\* line 150: len(missing_likelihood) != X.shape[1]
LengthMismatch(h, X, missing_likelihood) == Len(missing_likelihood) # Len(h[X][1])

get_nmar_incomplete_data(h, X, missing_likelihood) ==
    IF LengthMismatch(h, X, missing_likelihood)
    THEN DataRaise(h, "ValueError", 0)
    ELSE nmar_loop(Append(h, h[X]), X, Len(h) + 1, missing_likelihood, 1, 0)

-----------------------------------------------------------------------------
(* get_mar_incomplete_data, remove_y_when_z_is_large *)

RemoveYWhenZ(yy, z, t) == [fn |-> "remove_y_when_z_is_large", y |-> yy, z |-> z, threshold |-> t]

\* columns are 1-based here: column y of the code is column y + 1
remove_y_when_z_is_large(h, x, yy, z, threshold) ==
    LET xs == ReadView(h, x)
        val == np_product([k \in DOMAIN z |-> xs[z[k]]])
        x_missing == CopyView(h, x)
    IN IF Gt(val, threshold)
       THEN [heap |-> WriteView(x_missing.heap, x_missing.view, [xs EXCEPT ![yy] = NaN]),
             view |-> x_missing.view]
       ELSE x_missing

RECURSIVE mar_loop(_, _, _, _, _, _)
mar_loop(h, X, X_ret, missing_likelihood, i, invoked) ==
    IF i > Len(h[X]) THEN DataOk(h, <<X_ret>>, invoked)
    ELSE LET r == remove_y_when_z_is_large(h, RowView(X, i), missing_likelihood.y,
                                           missing_likelihood.z, missing_likelihood.threshold)
             h2 == WriteView(r.heap, RowView(X_ret, i), ReadView(r.heap, r.view))
         IN mar_loop(SubSeq(h2, 1, X_ret), X, X_ret, missing_likelihood, i + 1, invoked + 1)

get_mar_incomplete_data(h, X, missing_likelihood) ==
    LET full == [i \in 1..Len(h[X]) |-> [j \in 1..Len(h[X][i]) |-> NaN]]
    IN mar_loop(Append(h, full), X, Len(h) + 1, missing_likelihood, 1, 0)

-----------------------------------------------------------------------------
(* get_incomplete_data *)

\* mechanism tags are strings of ASCII codes
mcar == <<109, 99, 97, 114>>
mar == <<109, 97, 114>>
nmar == <<110, 109, 97, 114>>
\* str.lower
Lower(t) == [k \in DOMAIN t |-> IF t[k] >= 65 /\ t[k] <= 90 THEN t[k] + 32 ELSE t[k]]

\* line 301 reads the name `mechanims`, which is bound nowhere
get_incomplete_data(h, X, mechanism, missing_likelihood, random_state) ==
    DataRaise(h, "NameError", 0)

-----------------------------------------------------------------------------
(* get_incomplete_data_splits *)

\* ascending sequence of the elements of a set of numbers
Ascending(S) == np_unique_int(S)

\* StratifiedKFold(num_folds).split: fold f tests the rows assigned to f and
\* trains on the others, both in ascending order
cv_split(assign, num_folds) ==
    [f \in 1..num_folds |->
        [train |-> Ascending({i \in DOMAIN assign : assign[i] # f - 1}),
         test |-> Ascending({i \in DOMAIN assign : assign[i] = f - 1})]]

\* ndarray[index array]: a new array of the selected rows
Take(m, idx) == [k \in 1..Len(idx) |-> m[idx[k]]]
TakeY(m, idx) == <<[k \in 1..Len(idx) |-> m[1][idx[k]]]>>

\* lines 399-400 with the two index lists exchanged
select_incomplete_swapped(h, X_inc, train, test) ==
    [X_train_incomplete |-> Take(h[X_inc], test), X_test_incomplete |-> Take(h[X_inc], train)]

\* lines 399-400
select_incomplete(h, X_inc, train, test) ==
    [X_train_incomplete |-> Take(h[X_inc], train), X_test_incomplete |-> Take(h[X_inc], test)]

\* cv_raises: StratifiedKFold rejects its arguments (always for fewer than 2
\* folds or more folds than rows)
get_incomplete_data_splits(h, X_c, X_inc, yy, fold, num_folds, assign, cv_raises) ==
    IF cv_raises \/ num_folds < 2 \/ num_folds > Len(h[X_c])
    THEN DataRaise(h, "ValueError", 0) @@ [train |-> <<>>, test |-> <<>>]
    ELSE IF fold >= num_folds
    THEN DataRaise(h, "TypeError", 0) @@ [train |-> <<>>, test |-> <<>>]
    ELSE
    LET split == cv_split(assign, num_folds)[fold + 1]
        train == split.train
        test == split.test
        inc == select_incomplete(h, X_inc, train, test)
        n == Len(h)
        h2 == h \o << Take(h[X_c], train), inc.X_train_incomplete,
                      Take(h[X_c], test), inc.X_test_incomplete,
                      TakeY(h[yy], train), TakeY(h[yy], test) >>
    IN DataOk(h2, <<n + 1, n + 2, n + 3, n + 4, n + 5, n + 6>>, 0)
       @@ [train |-> train, test |-> test]

-----------------------------------------------------------------------------
(* Data state machine *)

Likelihoods == {0, 50, 100}
NmarLists == UNION {[1..k -> {NoFn} \cup {RemoveLarge(t) : t \in Thresholds}] :
                        k \in (NumCols - 1)..(NumCols + 1)}
MarFns == {RemoveYWhenZ(yy, z, t) :
             yy \in 1..NumCols, z \in {<<1>>, <<NumCols>>, <<1, NumCols>>}, t \in Thresholds}
Tags == {mcar, mar, nmar, <<77, 67, 65, 82>>, <<77, 97, 114>>, <<78, 77, 65, 82>>,
         <<109, 110, 97, 114>>}
\* the missing_likelihood values fitting a mechanism tag
LikelihoodsFor(t) ==
    CASE Lower(t) = mcar -> Likelihoods
      [] Lower(t) = mar -> {RemoveYWhenZ(1, <<NumCols>>, NumCols)}
      [] Lower(t) = nmar -> {[j \in 1..NumCols |-> RemoveLarge(NumCols)], <<NoFn>>}
      [] OTHER -> {50}

NoDataCall == [op |-> "init", X |-> 0, args |-> <<>>, exc |-> "none", ret |-> <<>>,
               invoked |-> 0, before |-> <<>>, written |-> FALSE,
               train |-> <<>>, test |-> <<>>]
DataCall(op, X, args, out) ==
    [op |-> op, X |-> X, args |-> args, exc |-> out.exc, ret |-> out.ret,
     invoked |-> out.invoked, before |-> heap, written |-> FALSE,
     train |-> IF op = "splits" THEN out.train ELSE <<>>,
     test |-> IF op = "splits" THEN out.test ELSE <<>>]

\* the caller holds a complete matrix, an incomplete matrix derived from it
\* by removing the values above some cut, and the labels
DataInit ==
    /\ \E cut \in 0..(NumRows * NumCols) :
          heap = << SampleX,
                    [i \in 1..NumRows |-> [j \in 1..NumCols |->
                        IF Gt(SampleX[i][j], cut) THEN NaN ELSE SampleX[i][j]]],
                    SampleY >>
    /\ np_random_seed = 0
    /\ res = NoDataCall

GetMcarIncompleteData ==
    \E X \in {X_complete_ref, X_incomplete_ref}, p \in Likelihoods, rs \in RandomStates :
        LET out == get_mcar_incomplete_data(heap, X, p, rs)
        IN /\ res.op = "init"
           /\ heap' = out.heap
           /\ res' = DataCall("mcar", X, <<p, rs>>, out)
           /\ UNCHANGED <<np_random_seed, encVars, harness>>

GetNmarIncompleteData ==
    \E X \in {X_complete_ref, X_incomplete_ref}, ml \in NmarLists, rs \in RandomStates :
        LET out == get_nmar_incomplete_data(heap, X, ml)
        IN /\ res.op = "init"
           /\ np_random_seed' = rs
           /\ UNCHANGED <<encVars, harness>>
           /\ heap' = out.heap
           /\ res' = DataCall("nmar", X, <<ml, rs>>, out)

GetMarIncompleteData ==
    \E X \in {X_complete_ref, X_incomplete_ref}, ml \in MarFns, rs \in RandomStates :
        LET out == get_mar_incomplete_data(heap, X, ml)
        IN /\ res.op = "init"
           /\ np_random_seed' = rs
           /\ UNCHANGED <<encVars, harness>>
           /\ heap' = out.heap
           /\ res' = DataCall("mar", X, <<ml, rs>>, out)

GetIncompleteData ==
    \E X \in {X_complete_ref, X_incomplete_ref}, t \in Tags, rs \in RandomStates :
        \E ml \in LikelihoodsFor(t) :
            LET out == get_incomplete_data(heap, X, t, ml, rs)
            IN /\ res.op = "init"
               /\ heap' = out.heap
               /\ res' = DataCall("dispatch", X, <<t, ml, rs>>, out)
               /\ UNCHANGED <<np_random_seed, encVars, harness>>

GetIncompleteDataSplits ==
    \E num_folds \in 1..MaxFolds, fold \in 0..MaxFolds, cv_raises \in BOOLEAN :
        \E assign \in [1..NumRows -> 0..(num_folds - 1)] :
            LET out == get_incomplete_data_splits(heap, X_complete_ref, X_incomplete_ref, y_ref,
                                                  fold, num_folds, assign, cv_raises)
            IN /\ res.op = "init"
               /\ heap' = out.heap
               /\ res' = DataCall("splits", X_complete_ref, <<fold, num_folds>>, out)
               /\ UNCHANGED <<np_random_seed, encVars, harness>>

\* the caller overwrites the first cell of an array a call returned
WriteReturned ==
    \E k \in DOMAIN res.ret :
        /\ res.op # "init"
        /\ ~res.written
        /\ heap' = [heap EXCEPT ![res.ret[k]][1][1] = Num(0 - 1)]
        /\ res' = [res EXCEPT !.written = TRUE]
        /\ UNCHANGED <<np_random_seed, encVars, harness>>

\* the caller drops the arrays the latest call returned
DataDiscard ==
    /\ res.op # "init"
    /\ res' = NoDataCall
    /\ heap' = SubSeq(heap, 1, 3)
    /\ UNCHANGED <<np_random_seed, encVars, harness>>

DataNext ==
    \/ GetMcarIncompleteData
    \/ GetNmarIncompleteData
    \/ GetMarIncompleteData
    \/ GetIncompleteData
    \/ GetIncompleteDataSplits
    \/ WriteReturned
    \/ DataDiscard

-----------------------------------------------------------------------------
(* train_on_incomplete_data *)

\* An estimator object holds its parameters and, once fitted, the data it was
\* fitted on.  est is the sequence of estimator objects alive, by identity;
\* log is the sequence of calls made on them.
Unfitted(params) == [params |-> params, fitted |-> FALSE, X |-> <<>>, y |-> <<>>]
NoRun == [est |-> <<>>, log |-> <<>>, exc |-> "none", val |-> <<>>]

\* sklearn.clone: a new, unfitted estimator with the same parameters
clone(st, m) ==
    IF st.exc # "none" THEN st
    ELSE [st EXCEPT !.est = Append(@, Unfitted(st.est[m].params)),
                    !.log = Append(@, <<"clone", m, Len(st.est) + 1>>),
                    !.val = Len(st.est) + 1]

\* estimator.fit(X, y); an exception of the estimator propagates
model_fit(st, m, X, yy, raises) ==
    IF st.exc # "none" THEN st
    ELSE IF raises
    THEN [st EXCEPT !.exc = "EstimatorError", !.log = Append(@, <<"fit", m>>)]
    ELSE [st EXCEPT !.est[m] = [params |-> @.params, fitted |-> TRUE, X |-> X, y |-> yy],
                    !.log = Append(@, <<"fit", m>>)]

\* what a fitted estimator predicts is a function of its parameters, the
\* data it was fitted on and the matrix it is given
Prediction(e, X) == [params |-> e.params, trained_X |-> e.X, trained_y |-> e.y, input |-> X]

\* estimator.predict(X); an unfitted estimator raises NotFittedError
model_predict(st, m, X, raises) ==
    IF st.exc # "none" THEN st
    ELSE IF ~st.est[m].fitted
    THEN [st EXCEPT !.exc = "NotFittedError", !.log = Append(@, <<"predict", m>>)]
    ELSE IF raises
    THEN [st EXCEPT !.exc = "EstimatorError", !.log = Append(@, <<"predict", m>>)]
    ELSE [st EXCEPT !.val = Prediction(st.est[m], X), !.log = Append(@, <<"predict", m>>)]

\* collections.namedtuple("TrainingResults", fields)(*args)
_training_results_fields ==
    <<"model_fit_c", "model_fit_i", "y_pred_cc", "y_pred_ic", "y_pred_ci", "y_pred_ii",
      "y_test">>
TrainingResults(args) ==
    [f \in Range(_training_results_fields) |->
        args[CHOOSE k \in DOMAIN _training_results_fields : _training_results_fields[k] = f]]

\* lines 480-488 with the predictions passed in the order they were computed
results_in_computed_order(model_fit_c, model_fit_i, y_pred_cc, y_pred_ci, y_pred_ic, y_pred_ii, y_test) ==
    TrainingResults(<<model_fit_c, model_fit_i, y_pred_cc, y_pred_ci, y_pred_ic, y_pred_ii,
                      y_test>>)

\* lines 480-488
results(model_fit_c, model_fit_i, y_pred_cc, y_pred_ci, y_pred_ic, y_pred_ii, y_test) ==
    TrainingResults(<<model_fit_c, model_fit_i, y_pred_cc, y_pred_ic, y_pred_ci, y_pred_ii,
                      y_test>>)

\* fails_at: which of the six fit / predict calls raises (0: none)
train_on_incomplete_data(est, model, d, fails_at) ==
    LET s0 == [NoRun EXCEPT !.est = est]
        s1 == clone(s0, model)
        model_fit_c == s1.val
        s2 == model_fit(s1, model_fit_c, d.X_train_complete, d.y_train, fails_at = 1)
        s3 == clone(s2, model)
        model_fit_i == s3.val
        s4 == model_fit(s3, model_fit_i, d.X_train_incomplete, d.y_train, fails_at = 2)
        s5 == model_predict(s4, model_fit_c, d.X_test_complete, fails_at = 3)
        s6 == model_predict(s5, model_fit_c, d.X_test_incomplete, fails_at = 4)
        s7 == model_predict(s6, model_fit_i, d.X_test_complete, fails_at = 5)
        s8 == model_predict(s7, model_fit_i, d.X_test_incomplete, fails_at = 6)
    IN IF s8.exc # "none"
       THEN [s8 EXCEPT !.val = <<>>]
       ELSE [s8 EXCEPT !.val = results(model_fit_c, model_fit_i, s5.val, s6.val, s7.val,
                                       s8.val, d.y_test)]

\* an IncompleteDataset as get_incomplete_data_splits returns it
IncompleteDataset(h, ret) ==
    [X_train_complete |-> h[ret[1]], X_train_incomplete |-> h[ret[2]],
     X_test_complete |-> h[ret[3]], X_test_incomplete |-> h[ret[4]],
     y_train |-> h[ret[5]], y_test |-> h[ret[6]]]

NoHarness == [op |-> "init", model |-> 0, given |-> <<>>, data |-> <<>>, run |-> NoRun]

\* the caller holds an estimator, fitted or not, and the dataset of a fold
HarnessInit ==
    \E cut \in 0..(NumRows * NumCols), fold \in 0..(MaxFolds - 1), fitted \in BOOLEAN :
        \E assign \in [1..NumRows -> 0..(MaxFolds - 1)] :
            LET h == << SampleX,
                        [i \in 1..NumRows |-> [j \in 1..NumCols |->
                            IF Gt(SampleX[i][j], cut) THEN NaN ELSE SampleX[i][j]]],
                        SampleY >>
                out == get_incomplete_data_splits(h, X_complete_ref, X_incomplete_ref, y_ref,
                                                  fold, MaxFolds, assign, FALSE)
                given == IF fitted
                         THEN [Unfitted("p") EXCEPT !.fitted = TRUE, !.X = SampleX, !.y = SampleY]
                         ELSE Unfitted("p")
            IN /\ out.exc = "none"
               /\ harness = [op |-> "init", model |-> 1, given |-> given,
                             data |-> IncompleteDataset(out.heap, out.ret),
                             run |-> [NoRun EXCEPT !.est = <<given>>]]

TrainOnIncompleteData ==
    \E fails_at \in 0..6 :
        /\ harness.op = "init"
        /\ harness' = [harness EXCEPT
                          !.op = "train_on_incomplete_data",
                          !.run = train_on_incomplete_data(harness.run.est, harness.model,
                                                           harness.data, fails_at)]
        /\ UNCHANGED <<encVars, dataVars>>

-----------------------------------------------------------------------------
(* Inputs *)

Markers == {None, Str(Dash), Str(b), Str(Tilde)}
LabelLists == {<<c>>, <<b, a>>}
LabelValues == {None, Str(a), Str(b), Str(c)}
\* the fit input of the specification's concrete scenario: ["a","b",None,"a"]
ScenarioFit == <<Str(a), Str(b), None, Str(a)>>
FitInputs == SeqsUpTo(LabelValues, MaxLen) \cup {ScenarioFit}
LabelInputs == SeqsUpTo(LabelValues, MaxLen)
CodeValues == {NaN} \cup {Num(n) : n \in (0 - 1)..3}
CodeInputs == SeqsUpTo(CodeValues, MaxLen)

\* the record of a call: op, the input as given (arg), the caller's array
\* after the call (buf), the outcome, the class list before the call (pre),
\* and for a chained inverse_transform the input of the transform it decodes
NoCall == [op |-> "init", arg |-> <<>>, buf |-> <<>>, out |-> Ok(<<>>),
           pre |-> [set |-> FALSE, val |-> <<>>],
           src |-> [chained |-> FALSE, y |-> <<>>]]
Call(op, arg, buf, out) == [op |-> op, arg |-> arg, buf |-> buf, out |-> out,
                            pre |-> classes_,
                            src |-> [chained |-> FALSE, y |-> <<>>]]

-----------------------------------------------------------------------------
(* Encoder state machine *)

\* NaNLabelEncoder.__init__
EncInit ==
    /\ missing_value_marker \in Markers
    /\ labels \in {[kind |-> "none", val |-> <<>>, dtype |-> "-"]}
                  \cup {[kind |-> "list", val |-> l, dtype |-> "-"] : l \in LabelLists}
    /\ declared = labels
    /\ treat_unknown_as_missing \in BOOLEAN
    /\ classes_ = [set |-> FALSE, val |-> <<>>]
    /\ nfits = 0
    /\ last = NoCall

Fit ==
    \E y \in FitInputs :
        /\ last.op = "init"
        /\ nfits < MaxFits
        /\ nfits' = nfits + 1
        /\ labels' = fit(y).labels
        /\ classes_' = fit(y).classes_
        /\ last' = Call("fit", y, y, fit(y).out)
        /\ UNCHANGED <<missing_value_marker, declared, treat_unknown_as_missing>>
        /\ UNCHANGED <<dataVars, harness>>

Transform ==
    \E y \in LabelInputs :
        /\ last.op = "init"
        /\ last' = Call("transform", y, y, transform(y))
        /\ UNCHANGED <<missing_value_marker, labels, declared, treat_unknown_as_missing, classes_,
                     nfits, dataVars, harness>>

InverseTransform ==
    \E y \in CodeInputs :
        /\ last.op = "init"
        /\ last' = Call("inverse_transform", y, inverse_buf(y), inverse_transform(y))
        /\ UNCHANGED <<missing_value_marker, labels, declared, treat_unknown_as_missing, classes_,
                     nfits, dataVars, harness>>

\* inverse_transform applied to the array the latest transform returned
InverseOfTransform ==
    /\ last.op = "transform"
    /\ last.out.exc = "none"
    /\ last' = [Call("inverse_transform", last.out.val, inverse_buf(last.out.val),
                     inverse_transform(last.out.val))
                EXCEPT !.src = [chained |-> TRUE, y |-> last.arg]]
    /\ UNCHANGED <<missing_value_marker, labels, declared, treat_unknown_as_missing, classes_,
                     nfits, dataVars, harness>>

GetNumClasses ==
    /\ last.op = "init"
    /\ last' = Call("get_num_classes", <<>>, <<>>, get_num_classes)
    /\ UNCHANGED <<missing_value_marker, labels, declared, treat_unknown_as_missing, classes_,
                     nfits, dataVars, harness>>

\* the caller drops the outcome of the latest call before making the next one
Discard ==
    /\ last.op # "init"
    /\ last' = NoCall
    /\ UNCHANGED <<missing_value_marker, labels, declared, treat_unknown_as_missing, classes_,
                     nfits, dataVars, harness>>

EncNext ==
    Fit \/ Transform \/ InverseTransform \/ InverseOfTransform \/ GetNumClasses \/ Discard

\* the encoder alone
EncIdle ==
    /\ missing_value_marker = Str(Dash)
    /\ labels = [kind |-> "none", val |-> <<>>, dtype |-> "-"]
    /\ declared = labels
    /\ treat_unknown_as_missing = FALSE
    /\ classes_ = [set |-> FALSE, val |-> <<>>]
    /\ nfits = 0
    /\ last = NoCall
DataIdle ==
    /\ heap = <<>>
    /\ np_random_seed = 0
    /\ res = NoDataCall

HarnessIdle == harness = NoHarness

Init == EncInit /\ DataIdle /\ HarnessIdle
Next == EncNext
Spec == Init /\ [][Next]_vars

\* the injectors, the dispatcher and the splitter
InitData == EncIdle /\ DataInit /\ HarnessIdle
NextData == DataNext
SpecData == InitData /\ [][NextData]_vars

\* the evaluation harness
InitHarness == EncIdle /\ DataIdle /\ HarnessInit
NextHarness == TrainOnIncompleteData
SpecHarness == InitHarness /\ [][NextHarness]_vars

-----------------------------------------------------------------------------
(* Encoder claims *)

\* the class list is the one a fit that returned normally leaves: the labels
\* followed by the sentinel, which is not itself a label
FittedOk ==
    /\ classes_.set
    /\ labels.kind = "array"
    /\ classes_.val = Append(labels.val, missing_value_marker.s)
    /\ missing_value_marker.s \notin Range(labels.val)

\* position (0-based) of string v in the class list
IndexOf(v) == (CHOOSE k \in DOMAIN classes_.val : classes_.val[k] = v) - 1
Offending(y) == {y[i].s : i \in {j \in DOMAIN y : ~y[j].null}} \ Range(classes_.val)
OffendingCodes(y) ==
    {y[i].v : i \in {j \in DOMAIN y : ~y[j].nan}} \ (0..(Len(classes_.val) - 1))

\* C1: on a fitted encoder, inverse_transform(transform(L)) reproduces L for
\* every L of fitted labels and missing values; a missing entry comes back as
\* the missing value, not as the sentinel marker.
C1_RoundTrip ==
    (/\ FittedOk
     /\ last.op = "inverse_transform"
     /\ last.src.chained
     /\ \A i \in DOMAIN last.src.y :
            last.src.y[i].null \/ last.src.y[i].s \in Range(labels.val))
    => (last.out.exc = "none" /\ last.out.val = last.src.y)

\* C2: on a fitted encoder whose sentinel is not a label, transform encodes
\* every non-missing fitted label v as the index i with classes_[i] = v,
\* which is below the sentinel's (last) index.
C2_RankPosition ==
    (/\ FittedOk
     /\ last.op = "transform"
     /\ \A i \in DOMAIN last.arg :
            last.arg[i].null \/ last.arg[i].s \in Range(labels.val))
    => /\ last.out.exc = "none"
       /\ \A i \in DOMAIN last.arg :
            ~last.arg[i].null =>
                /\ last.out.val[i] = Num(IndexOf(last.arg[i].s))
                /\ last.out.val[i].v < Len(classes_.val) - 1

\* the specification's concrete scenario: fit on ["a","b",None,"a"] gave the
\* class order a, b, sentinel; transform(["a","c"]) with unseen-as-missing
ScenarioCall ==
    /\ treat_unknown_as_missing
    /\ labels = [kind |-> "array", val |-> <<a, b>>, dtype |-> "O"]
    /\ classes_ = [set |-> TRUE, val |-> <<a, b, missing_value_marker.s>>]
    /\ last.op = "transform"
    /\ last.arg = <<Str(a), Str(c)>>

\* C3 as stated: with unseen-as-missing enabled, transform never fails on an
\* unseen label and encodes each value outside the class set as the
\* sentinel's index; in the scenario transform(["a","c"]) yields [0, 2].
C3_UnseenAsSentinelIndex ==
    /\ (FittedOk /\ treat_unknown_as_missing /\ last.op = "transform")
        => /\ last.out.exc = "none"
           /\ \A i \in DOMAIN last.arg :
                (~last.arg[i].null /\ last.arg[i].s \notin Range(classes_.val))
                    => last.out.val[i] = Num(Len(classes_.val) - 1)
    /\ ScenarioCall => last.out = Ok(<<Num(0), Num(2)>>)

\* C3 amended: with unseen-as-missing enabled, transform on an encoder whose
\* class list ends with the sentinel never fails on an unseen label and
\* encodes each value outside the class set as the missing placeholder NaN,
\* as it encodes a missing entry; in the scenario it yields [0, NaN].
C3_UnseenAsNaN ==
    /\ (FittedOk /\ treat_unknown_as_missing /\ last.op = "transform")
        => /\ last.out.exc = "none"
           /\ \A i \in DOMAIN last.arg :
                (last.arg[i].null \/ last.arg[i].s \notin Range(classes_.val))
                    => last.out.val[i] = NaN
    /\ ScenarioCall => last.out = Ok(<<Num(0), NaN>>)

\* C3 witness: the scenario's call has been made and returned
C3_Witness == ScenarioCall /\ last.out.exc = "none"

\* C4: with unseen-as-missing disabled, transform of an input holding a
\* non-missing value outside the class set fails naming the offending values;
\* inverse_transform of an input holding non-missing codes outside
\* 0..len(classes_)-1 fails naming the offending codes; nothing is returned
\* and the class list is unchanged.
C4_RejectsOutOfDomain ==
    /\ (/\ FittedOk
        /\ ~treat_unknown_as_missing
        /\ last.op = "transform"
        /\ Offending(last.arg) # {})
        => /\ last.out = Raise("ValueError", "y contains new labels",
                               np_unique(Offending(last.arg)))
           /\ classes_ = last.pre
    /\ (/\ FittedOk
        /\ last.op = "inverse_transform"
        /\ OffendingCodes(last.arg) # {})
        => /\ last.out = Raise("ValueError", "y contains new labels",
                               np_unique_int(OffendingCodes(last.arg)))
           /\ classes_ = last.pre

\* C5: on an encoder on which no fit has completed, transform,
\* inverse_transform and get_num_classes fail with a not-fitted error and
\* return nothing, with or without declared labels; only a successful fit
\* makes the encoder fitted.
C5_UnfitCallsFail ==
    /\ (~classes_.set /\ last.op \in {"transform", "inverse_transform", "get_num_classes"})
        => last.out = NotFitted
    /\ classes_.set => labels.kind = "array"

\* C11: after fit(y), transform(y) or inverse_transform(y) returns or fails,
\* the caller's sequence y holds at every position the value it held before
\* the call; inverse_transform leaves the missing placeholders of the
\* caller's code sequence in place.
C11_InputsReadOnly ==
    last.op \in {"fit", "transform", "inverse_transform"} =>
        /\ last.buf = last.arg
        /\ \A i \in DOMAIN last.arg :
               (last.op = "inverse_transform" /\ last.arg[i].nan) => last.buf[i].nan

\* the non-missing values of a fit input
NonMissing(y) == {y[i].s : i \in DOMAIN y \ isnull(y)}

\* the class list the fit of y builds on a newly constructed encoder: the
\* sorted values of y and the declared labels, then the marker
ExpectedClasses(y) ==
    Append(np_unique(NonMissing(y) \cup Range(declared.val)), missing_value_marker.s)

\* a fit of y on a newly constructed encoder passes the checks of lines 50-60
FirstFitSucceeds(y) ==
    /\ ~missing_value_marker.null
    /\ \A i \in DOMAIN y : y[i] # missing_value_marker

\* C12: whatever calls were made before, a fit succeeds whenever a first fit
\* on the same input would, and leaves as class list the sorted
\* duplicate-free non-missing values of its input united with the labels
\* declared at construction, followed by the sentinel, without values seen
\* only in earlier fits; a failing fit, transform and inverse_transform
\* leave the class list as it was.
C12_RefitIndependence ==
    [][
        /\ (last'.op = "fit" /\ last.op = "init") =>
               /\ FirstFitSucceeds(last'.arg) => last'.out.exc = "none"
               /\ last'.out.exc = "none" =>
                      classes_' = [set |-> TRUE, val |-> ExpectedClasses(last'.arg)]
               /\ last'.out.exc # "none" => classes_' = classes_
        /\ (last'.op \in {"transform", "inverse_transform"} /\ last' # last) =>
               /\ classes_' = classes_
               /\ labels' = labels
    ]_vars


-----------------------------------------------------------------------------
(* Missing-data injectors, dispatch and splitter: properties under SpecData *)

NumColumns == Len(res.before[res.X][1])

\* C6: get_incomplete_data with a tag equal, in any letter case, to "mcar",
\* "mar" or "nmar" returns what get_mcar_incomplete_data,
\* get_mar_incomplete_data or get_nmar_incomplete_data returns on the same
\* arguments, and with any other tag it fails with ValueError.
C6_DispatchRoutes ==
    res.op = "dispatch" =>
        LET mechanism == Lower(res.args[1])
            missing_likelihood == res.args[2]
            random_state == res.args[3]
            expected ==
                CASE mechanism = mcar ->
                        get_mcar_incomplete_data(res.before, res.X, missing_likelihood,
                                                 random_state)
                  [] mechanism = mar ->
                        get_mar_incomplete_data(res.before, res.X, missing_likelihood)
                  [] mechanism = nmar ->
                        get_nmar_incomplete_data(res.before, res.X, missing_likelihood)
                  [] OTHER -> DataRaise(res.before, "ValueError", 0)
        IN /\ res.exc = expected.exc
           /\ Len(res.ret) = Len(expected.ret)
           /\ \A k \in DOMAIN res.ret :
                  res.written \/ heap[res.ret[k]] = expected.heap[expected.ret[k]]

\* C7: get_nmar_incomplete_data given a list whose length differs from the
\* column count of X fails with ValueError before any per-column transform is
\* invoked, returns no matrix and leaves X as it was; given a list of
\* matching length it raises no such error.
C7_NmarValidation ==
    res.op = "nmar" =>
        LET missing_likelihood == res.args[1]
        IN /\ Len(missing_likelihood) # NumColumns =>
                  /\ res.exc = "ValueError"
                  /\ res.invoked = 0
                  /\ res.ret = <<>>
                  /\ heap = res.before
           /\ Len(missing_likelihood) = NumColumns => res.exc # "ValueError"

\* a call with a transform per column and one transform more
C7_Witness ==
    /\ res.op = "nmar"
    /\ Len(res.args[1]) > NumColumns
    /\ \A k \in DOMAIN res.args[1] : res.args[1][k].fn = "remove_large_values"
    /\ res.exc = "ValueError"

IsNaNCell(m) == \E i \in DOMAIN m : \E j \in DOMAIN m[i] : m[i][j].nan

\* C8: after get_nmar_incomplete_data, get_mar_incomplete_data and
\* get_incomplete_data_splits return, every caller-supplied matrix holds the
\* values it held before the call, and the returned matrices are new arrays:
\* a later write to one of them changes no caller-supplied matrix.
C8_DefensiveCopy ==
    res.op \in {"nmar", "mar", "splits"} =>
        /\ \A id \in CallerIds : heap[id] = res.before[id]
        /\ \A k \in DOMAIN res.ret :
              /\ res.ret[k] \notin DOMAIN res.before
              /\ \A l \in DOMAIN res.ret : res.ret[l] = res.ret[k] => l = k

\* the call masked some cell of the complete matrix in what it returned, and
\* the caller has then written to a returned matrix
C8_Witness ==
    /\ res.op = "nmar"
    /\ res.X = X_complete_ref
    /\ res.exc = "none"
    /\ res.invoked > 0
    /\ IsNaNCell(heap[res.ret[1]])
    /\ res.written

\* C9: every dataset get_incomplete_data_splits returns is built from one
\* ordered list of row indices for X_train_complete, X_train_incomplete and
\* y_train and one for X_test_complete, X_test_incomplete and y_test, the two
\* lists being the fold's; row k of an incomplete member is the row of
\* X_incomplete at the index row k of the complete member was taken from.
C9_RowCorrespondence ==
    (res.op = "splits" /\ res.exc = "none" /\ ~res.written) =>
        LET X_complete == res.before[X_complete_ref]
            X_incomplete == res.before[X_incomplete_ref]
            yy == res.before[y_ref]
            d == IncompleteDataset(heap, res.ret)
        IN /\ Len(d.X_train_complete) = Len(res.train)
           /\ Len(d.X_train_incomplete) = Len(res.train)
           /\ Len(d.y_train[1]) = Len(res.train)
           /\ \A k \in DOMAIN res.train :
                  /\ d.X_train_complete[k] = X_complete[res.train[k]]
                  /\ d.X_train_incomplete[k] = X_incomplete[res.train[k]]
                  /\ d.y_train[1][k] = yy[1][res.train[k]]
           /\ Len(d.X_test_complete) = Len(res.test)
           /\ Len(d.X_test_incomplete) = Len(res.test)
           /\ Len(d.y_test[1]) = Len(res.test)
           /\ \A k \in DOMAIN res.test :
                  /\ d.X_test_complete[k] = X_complete[res.test[k]]
                  /\ d.X_test_incomplete[k] = X_incomplete[res.test[k]]
                  /\ d.y_test[1][k] = yy[1][res.test[k]]
           /\ Range(res.train) \cap Range(res.test) = {}
           /\ Range(res.train) \cup Range(res.test) = DOMAIN X_complete

\* a fold with train and test rows whose incomplete rows differ from the
\* complete ones and from each other
C9_Witness ==
    /\ res.op = "splits"
    /\ res.exc = "none"
    /\ ~res.written
    /\ Len(res.train) >= 2
    /\ Len(res.test) >= 1
    /\ heap[res.ret[2]] # heap[res.ret[1]]
    /\ heap[res.ret[4]] # heap[res.ret[3]]
    /\ \A k \in DOMAIN res.train : \A l \in DOMAIN res.test :
           res.before[X_incomplete_ref][res.train[k]] # res.before[X_incomplete_ref][res.test[l]]

-----------------------------------------------------------------------------
(* Evaluation harness: properties under SpecHarness *)

FitsBefore(log, k) == {j \in 1..(k - 1) : log[j] = <<"fit", log[k][2]>>}

\* C10: train_on_incomplete_data fits two separate clones of the given model
\* and never the given model: model_fit_c on (X_train_complete, y_train),
\* model_fit_i on (X_train_incomplete, y_train).  In the TrainingResults,
\* y_pred_cc is model_fit_c's prediction on X_test_complete, y_pred_ci
\* model_fit_c's on X_test_incomplete, y_pred_ic model_fit_i's on
\* X_test_complete, y_pred_ii model_fit_i's on X_test_incomplete, and y_test
\* the dataset's y_test; a model predicts only after it has been fitted.
C10_FactorialLayout ==
    harness.op = "train_on_incomplete_data" =>
        LET run == harness.run
            d == harness.data
            fitted_on(X) == [params |-> harness.given.params, fitted |-> TRUE,
                             X |-> X, y |-> d.y_train]
        IN /\ run.est[harness.model] = harness.given
           /\ \A k \in DOMAIN run.log :
                  /\ run.log[k][1] = "fit" => run.log[k][2] # harness.model
                  /\ run.log[k][1] = "predict" => FitsBefore(run.log, k) # {}
           /\ run.exc = "none" =>
                  LET r == run.val
                      model_fit_c == r.model_fit_c
                      model_fit_i == r.model_fit_i
                  IN /\ model_fit_c # harness.model
                     /\ model_fit_i # harness.model
                     /\ model_fit_c # model_fit_i
                     /\ run.est[model_fit_c] = fitted_on(d.X_train_complete)
                     /\ run.est[model_fit_i] = fitted_on(d.X_train_incomplete)
                     /\ r.y_pred_cc = Prediction(fitted_on(d.X_train_complete),
                                                 d.X_test_complete)
                     /\ r.y_pred_ci = Prediction(fitted_on(d.X_train_complete),
                                                 d.X_test_incomplete)
                     /\ r.y_pred_ic = Prediction(fitted_on(d.X_train_incomplete),
                                                 d.X_test_complete)
                     /\ r.y_pred_ii = Prediction(fitted_on(d.X_train_incomplete),
                                                 d.X_test_incomplete)
                     /\ r.y_test = d.y_test

\* a completed run on a dataset whose incomplete matrices differ from the
\* complete ones, so that the four predictions are four different values
C10_Witness ==
    /\ harness.op = "train_on_incomplete_data"
    /\ harness.run.exc = "none"
    /\ harness.data.X_train_complete # harness.data.X_train_incomplete
    /\ harness.data.X_test_complete # harness.data.X_test_incomplete
    /\ harness.run.val.y_pred_ci # harness.run.val.y_pred_ic

====
